---------------------------- MODULE Spec2Model ----------------------------
(***************************************************************************)
(* A model of 0x02-redis_basic: exercise.py (Cache, count_calls,           *)
(* call_history, replay) and web.py (cache_and_count_access, get_page),    *)
(* over one Redis database (both modules connect to localhost:6379, db 0). *)
(*                                                                         *)
(* Redis string values are byte sequences (tuples of 0..255); Python str   *)
(* values are tuples of code points.  Keys are strings.                    *)
(***************************************************************************)
EXTENDS Integers, Sequences, FiniteSets, TLC

(***************************************************************************)
(* Bounds of the model.                                                    *)
(***************************************************************************)
MaxTicks == 3        \* steps of the clock in one run
MaxCalls == 3        \* fetch calls started in one run
MaxRaceCalls == 2    \* fetch calls started in one run of racing callers
MaxStores == 3       \* Cache.store calls started in one run
MaxRecorded == 3     \* calls of the recorded method started in one run
MaxRaceRecorded == 2 \* calls of the recorded method started in one run of racing callers
MaxSystemCalls == 4  \* calls of all components started in one run of the whole system

(***************************************************************************)
(* Program constants.                                                      *)
(***************************************************************************)
TTL == 10            \* redis_client.setex(cache_key, 10, result)

\* The clock moves in steps of half a time to live.
TickSeconds == TTL \div 2
MaxTime == MaxTicks * TickSeconds

\* Two callers share the store; "c1" alone makes the calls of a sequential run.
Callers == {"c1", "c2"}
SeqCallers == {"c1"}
Urls == {"a", "b"}

VARIABLES
    redis,        \* the database: key -> entry
    now,          \* the store's clock, in seconds
    pc,           \* per caller: where it is in its current call
    frame,        \* per caller: the locals of its current (or last) call
    ret,          \* per caller: how its last call ended
    started,      \* per url: fetch calls started (history)
    invocations,  \* per url: calls of the undecorated get_page (history)
    firstWrite,   \* per url: the first cache write (history)
    issued,       \* the keys uuid4 has generated
    stored,       \* key -> the data Cache.store was given for it (history)
    storeCalls,   \* Cache.store calls started (history)
    callLog       \* the calls of the recorded method, in call order (history)

fetchVars == <<started, invocations, firstWrite>>
cacheVars == <<issued, stored, storeCalls>>
historyVars == <<callLog>>
vars == <<redis, now, pc, frame, ret, fetchVars, cacheVars, historyVars>>

(***************************************************************************)
(* Python values and call outcomes.                                        *)
(***************************************************************************)
None == [type |-> "NoneType"]
PyStr(cps) == [type |-> "str", val |-> cps]
PyBytes(bs) == [type |-> "bytes", val |-> bs]
PyInt(n) == [type |-> "int", val |-> n]
PyFloat(tenths) == [type |-> "float", tenths |-> tenths]   \* the float tenths/10
PyKey(k) == [type |-> "str", key |-> k]                    \* a str naming a key

Return(v) == [kind |-> "return", val |-> v]
Raise(e) == [kind |-> "raise", exc |-> e]
NoOutcome == [kind |-> "none"]

\* Python truth value: `if cached_result:`
Truthy(v) ==
    CASE v.type = "NoneType" -> FALSE
      [] v.type = "str" -> Len(v.val) > 0
      [] v.type = "bytes" -> Len(v.val) > 0
      [] v.type = "int" -> v.val # 0
      [] OTHER -> TRUE

(***************************************************************************)
(* UTF-8, as str.encode("utf-8") and bytes.decode("utf-8") compute it.     *)
(***************************************************************************)
utf8_encode_cp(cp) ==
    IF cp < 128 THEN <<cp>>
    ELSE IF cp < 2048 THEN <<192 + (cp \div 64), 128 + (cp % 64)>>
    ELSE IF cp < 65536
         THEN <<224 + (cp \div 4096), 128 + ((cp \div 64) % 64), 128 + (cp % 64)>>
    ELSE <<240 + (cp \div 262144), 128 + ((cp \div 4096) % 64),
           128 + ((cp \div 64) % 64), 128 + (cp % 64)>>

RECURSIVE utf8_encode(_)
utf8_encode(s) ==
    IF s = <<>> THEN <<>> ELSE utf8_encode_cp(Head(s)) \o utf8_encode(Tail(s))

IsCont(b) == b >= 128 /\ b < 192

utf8_len(b1) ==
    IF b1 < 128 THEN 1
    ELSE IF b1 >= 194 /\ b1 < 224 THEN 2
    ELSE IF b1 >= 224 /\ b1 < 240 THEN 3
    ELSE IF b1 >= 240 /\ b1 < 245 THEN 4
    ELSE 0

\* [ok |-> TRUE, val |-> code points] or [ok |-> FALSE] (UnicodeDecodeError)
RECURSIVE utf8_decode(_)
utf8_decode(b) ==
    IF b = <<>> THEN [ok |-> TRUE, val |-> <<>>]
    ELSE LET b1 == b[1]
             n == utf8_len(b1)
         IN IF \/ n = 0
               \/ Len(b) < n
               \/ \E i \in 2..n : ~IsCont(b[i])
               \/ (b1 = 224 /\ b[2] < 160)      \* overlong
               \/ (b1 = 237 /\ b[2] >= 160)     \* surrogates
               \/ (b1 = 240 /\ b[2] < 144)      \* overlong
               \/ (b1 = 244 /\ b[2] >= 144)     \* above U+10FFFF
            THEN [ok |-> FALSE]
            ELSE LET cp == CASE n = 1 -> b1
                             [] n = 2 -> (b1 - 192) * 64 + (b[2] - 128)
                             [] n = 3 -> (b1 - 224) * 4096 + (b[2] - 128) * 64
                                         + (b[3] - 128)
                             [] n = 4 -> (b1 - 240) * 262144 + (b[2] - 128) * 4096
                                         + (b[3] - 128) * 64 + (b[4] - 128)
                     rest == utf8_decode(SubSeq(b, n + 1, Len(b)))
                 IN IF rest.ok THEN [ok |-> TRUE, val |-> <<cp>> \o rest.val]
                    ELSE rest

(***************************************************************************)
(* Decimal text of integers, as the store and the client write them.       *)
(***************************************************************************)
RECURSIVE NatToBytes(_)
NatToBytes(n) ==
    IF n < 10 THEN <<48 + n>> ELSE NatToBytes(n \div 10) \o <<48 + (n % 10)>>

IntToBytes(i) == IF i < 0 THEN <<45>> \o NatToBytes(0 - i) ELSE NatToBytes(i)

IsDigit(b) == b >= 48 /\ b <= 57

RECURSIVE DigitsToNat(_)
DigitsToNat(ds) ==
    IF ds = <<>> THEN 0
    ELSE DigitsToNat(SubSeq(ds, 1, Len(ds) - 1)) * 10 + (ds[Len(ds)] - 48)

\* The store's own parse of a string value for INCR (string2ll): an optional
\* '-', then digits with no leading zero; nothing else.
string2ll(b) ==
    LET neg == Len(b) > 0 /\ b[1] = 45
        ds == IF neg THEN Tail(b) ELSE b
    IN IF \/ ds = <<>>
          \/ \E i \in 1..Len(ds) : ~IsDigit(ds[i])
          \/ (Len(ds) > 1 /\ ds[1] = 48)
          \/ (neg /\ ds = <<48>>)
       THEN [ok |-> FALSE]
       ELSE [ok |-> TRUE, val |-> IF neg THEN 0 - DigitsToNat(ds) ELSE DigitsToNat(ds)]

(***************************************************************************)
(* The store: the commands the program issues.                             *)
(***************************************************************************)
NoExpiry == 0 - 1

StringEntry(bs, exp) == [kind |-> "string", val |-> bs, exp |-> exp]
ListEntry(items) == [kind |-> "list", items |-> items, exp |-> NoExpiry]

Put(db, key, entry) ==
    [k \in DOMAIN db \cup {key} |-> IF k = key THEN entry ELSE db[k]]

\* Keys whose time to live has run out are gone.
expire(db, t) ==
    LET live == {k \in DOMAIN db : db[k].exp = NoExpiry \/ t < db[k].exp}
    IN [k \in live |-> db[k]]

\* GET: the bytes, NoValue for a missing key, WrongType for a list.
NoValue == [found |-> FALSE, error |-> FALSE]
WrongType == [found |-> FALSE, error |-> TRUE]
redis_get(db, key) ==
    IF key \notin DOMAIN db THEN NoValue
    ELSE IF db[key].kind # "string" THEN WrongType
    ELSE [found |-> TRUE, error |-> FALSE, val |-> db[key].val]

\* INCR: [ok, db, val]; a missing key counts from 0, the expiry is kept.
redis_incr(db, key) ==
    IF key \notin DOMAIN db
    THEN [ok |-> TRUE, db |-> Put(db, key, StringEntry(IntToBytes(1), NoExpiry)), val |-> 1]
    ELSE IF db[key].kind # "string" THEN [ok |-> FALSE, db |-> db]
    ELSE LET n == string2ll(db[key].val)
         IN IF ~n.ok THEN [ok |-> FALSE, db |-> db]
            ELSE [ok |-> TRUE,
                  db |-> Put(db, key, StringEntry(IntToBytes(n.val + 1), db[key].exp)),
                  val |-> n.val + 1]

\* SETEX key ttl value, issued at time t.
redis_setex(db, key, ttl, bs, t) == Put(db, key, StringEntry(bs, t + ttl))

\* SET key value: any expiry of the key is dropped.
redis_set(db, key, bs) == Put(db, key, StringEntry(bs, NoExpiry))

(***************************************************************************)
(* web.py                                                                  *)
(***************************************************************************)
\* A slip: the key written without its f prefix, one counter for every url.
count_key_no_fstring(url) == "count:{url}"

\* A slip: the cache key without the url, one key for every page.
cache_key_no_url(url) == "cache:"

count_key(url) == "count:" \o url
cache_key(url) == "cache:" \o url

\* What requests.get(url).text can be: the empty page, an ASCII page, a page
\* whose text is not ASCII.  RequestException stands for every failure.
Texts == {<<>>, <<120>>, <<233>>}
Failures == {"RequestException"}

NoWrite == [written |-> FALSE]

Sum(f) == LET RECURSIVE S(_)
              S(D) == IF D = {} THEN 0
                      ELSE LET x == CHOOSE y \in D : TRUE IN f[x] + S(D \ {x})
          IN S(DOMAIN f)

IdleFrame == [op |-> "none"]

\* The locals are gone once a call has ended; what the call did stays on record.
Ended(f) == [f EXCEPT !.current_count = 0, !.cached_result = None, !.result = None]

\* redis_client.get with decode_responses=True: an outcome (str, None or a raise)
client_get_decoded(db, key) ==
    LET g == redis_get(db, key)
    IN IF g.error THEN Raise("ResponseError")
       ELSE IF ~g.found THEN Return(None)
       ELSE LET d == utf8_decode(g.val)
            IN IF d.ok THEN Return(PyStr(d.val)) ELSE Raise("UnicodeDecodeError")

\* wrapper, lines 27-28: count the access.
wrapper_incr(c, url) ==
    /\ pc[c] = "idle"
    /\ Sum(started) < MaxCalls
    /\ LET r == redis_incr(redis, count_key(url))
       IN /\ redis' = r.db
          /\ frame' = [frame EXCEPT ![c] =
                [op |-> "get_page", url |-> url,
                 current_count |-> IF r.ok THEN r.val ELSE 0,
                 cached_result |-> None, result |-> None,
                 invoked |-> FALSE, afterWrite |-> firstWrite[url].written]]
          /\ pc' = [pc EXCEPT ![c] = IF r.ok THEN "get" ELSE "idle"]
          /\ ret' = [ret EXCEPT ![c] = IF r.ok THEN NoOutcome ELSE Raise("ResponseError")]
    /\ started' = [started EXCEPT ![url] = @ + 1]
    /\ UNCHANGED <<now, invocations, firstWrite, cacheVars, historyVars>>

\* A slip: a hit starts the time to live of the entry again.
wrapper_get_touch(c) ==
    /\ pc[c] = "get"
    /\ LET g == client_get_decoded(redis, cache_key(frame[c].url))
       IN IF g.kind = "raise"
          THEN /\ ret' = [ret EXCEPT ![c] = g]
               /\ pc' = [pc EXCEPT ![c] = "idle"]
               /\ frame' = [frame EXCEPT ![c] = Ended(@)]
               /\ redis' = redis
          ELSE IF Truthy(g.val)
          THEN /\ ret' = [ret EXCEPT ![c] = Return(g.val)]
               /\ pc' = [pc EXCEPT ![c] = "idle"]
               /\ frame' = [frame EXCEPT ![c] = Ended(@)]
               /\ redis' = redis_setex(redis, cache_key(frame[c].url), TTL,
                                       utf8_encode(g.val.val), now)
          ELSE /\ ret' = ret
               /\ pc' = [pc EXCEPT ![c] = "func"]
               /\ frame' = [frame EXCEPT ![c].cached_result = g.val]
               /\ redis' = redis
    /\ UNCHANGED <<now, started, invocations, firstWrite, cacheVars, historyVars>>

\* wrapper, lines 31-36: read the cache key and return what it holds, if truthy.
wrapper_get(c) ==
    /\ pc[c] = "get"
    /\ LET g == client_get_decoded(redis, cache_key(frame[c].url))
       IN IF g.kind = "raise"
          THEN /\ ret' = [ret EXCEPT ![c] = g]
               /\ pc' = [pc EXCEPT ![c] = "idle"]
               /\ frame' = [frame EXCEPT ![c] = Ended(@)]
          ELSE IF Truthy(g.val)
          THEN /\ ret' = [ret EXCEPT ![c] = Return(g.val)]
               /\ pc' = [pc EXCEPT ![c] = "idle"]
               /\ frame' = [frame EXCEPT ![c] = Ended(@)]
          ELSE /\ ret' = ret
               /\ pc' = [pc EXCEPT ![c] = "func"]
               /\ frame' = [frame EXCEPT ![c].cached_result = g.val]
    /\ UNCHANGED <<redis, now, started, invocations, firstWrite, cacheVars, historyVars>>

\* get_page, lines 52-53, when the request succeeds with `text`.
get_page_returns(c, text) ==
    /\ pc[c] = "func"
    /\ frame' = [frame EXCEPT ![c].result = PyStr(text), ![c].invoked = TRUE]
    /\ pc' = [pc EXCEPT ![c] = "setex"]
    /\ invocations' = [invocations EXCEPT ![frame[c].url] = @ + 1]
    /\ UNCHANGED <<redis, now, ret, started, firstWrite, cacheVars, historyVars>>

\* get_page, line 52, when the request raises: nothing catches it (line 38).
get_page_raises(c, e) ==
    /\ pc[c] = "func"
    /\ frame' = [frame EXCEPT ![c] = Ended([@ EXCEPT !.invoked = TRUE])]
    /\ ret' = [ret EXCEPT ![c] = Raise(e)]
    /\ pc' = [pc EXCEPT ![c] = "idle"]
    /\ invocations' = [invocations EXCEPT ![frame[c].url] = @ + 1]
    /\ UNCHANGED <<redis, now, started, firstWrite, cacheVars, historyVars>>

\* A slip: the result cached with set, so that it never expires.
wrapper_setex_no_ttl(c) ==
    /\ pc[c] = "setex"
    /\ LET url == frame[c].url
       IN /\ redis' = redis_set(redis, cache_key(url), utf8_encode(frame[c].result.val))
          /\ firstWrite' = IF firstWrite[url].written THEN firstWrite
                           ELSE [firstWrite EXCEPT ![url] =
                                    [written |-> TRUE, at |-> now,
                                     text |-> frame[c].result]]
    /\ ret' = [ret EXCEPT ![c] = Return(frame[c].result)]
    /\ pc' = [pc EXCEPT ![c] = "idle"]
    /\ frame' = [frame EXCEPT ![c] = Ended(@)]
    /\ UNCHANGED <<now, started, invocations, cacheVars, historyVars>>

\* A slip: the result cached only when the key holds nothing, so that the
\* first of two writes stays.
wrapper_setex_nx(c) ==
    /\ pc[c] = "setex"
    /\ LET url == frame[c].url
       IN /\ redis' = IF cache_key(url) \in DOMAIN redis THEN redis
                       ELSE redis_setex(redis, cache_key(url), TTL,
                                        utf8_encode(frame[c].result.val), now)
          /\ firstWrite' = IF firstWrite[url].written THEN firstWrite
                           ELSE [firstWrite EXCEPT ![url] =
                                    [written |-> TRUE, at |-> now,
                                     text |-> frame[c].result]]
    /\ ret' = [ret EXCEPT ![c] = Return(frame[c].result)]
    /\ pc' = [pc EXCEPT ![c] = "idle"]
    /\ frame' = [frame EXCEPT ![c] = Ended(@)]
    /\ UNCHANGED <<now, started, invocations, cacheVars, historyVars>>

\* wrapper, lines 39-41: cache the result for TTL seconds and return it.
wrapper_setex(c) ==
    /\ pc[c] = "setex"
    /\ LET url == frame[c].url
       IN /\ redis' = redis_setex(redis, cache_key(url), TTL,
                                  utf8_encode(frame[c].result.val), now)
          /\ firstWrite' = IF firstWrite[url].written THEN firstWrite
                           ELSE [firstWrite EXCEPT ![url] =
                                    [written |-> TRUE, at |-> now,
                                     text |-> frame[c].result]]
    /\ ret' = [ret EXCEPT ![c] = Return(frame[c].result)]
    /\ pc' = [pc EXCEPT ![c] = "idle"]
    /\ frame' = [frame EXCEPT ![c] = Ended(@)]
    /\ UNCHANGED <<now, started, invocations, cacheVars, historyVars>>

\* A second passes; the store drops what has expired.
Tick ==
    /\ now < MaxTime
    /\ now' = now + TickSeconds
    /\ redis' = expire(redis, now + TickSeconds)
    /\ UNCHANGED <<pc, frame, ret, started, invocations, firstWrite, cacheVars, historyVars>>

(***************************************************************************)
(* exercise.py: the client's encoding of values, and the coercions.        *)
(***************************************************************************)
\* repr of the float tenths/10: "1.5", "-0.5", "2.0"
float_repr(tenths) ==
    LET a == IF tenths < 0 THEN 0 - tenths ELSE tenths
    IN (IF tenths < 0 THEN <<45>> ELSE <<>>)
       \o NatToBytes(a \div 10) \o <<46>> \o NatToBytes(a % 10)

\* What the client sends for a value: bytes as they are, int and float as
\* their repr, str as UTF-8; anything else is refused with DataError.
client_encode(v) ==
    CASE v.type = "bytes" -> [ok |-> TRUE, val |-> v.val]
      [] v.type = "int" -> [ok |-> TRUE, val |-> IntToBytes(v.val)]
      [] v.type = "float" -> [ok |-> TRUE, val |-> float_repr(v.tenths)]
      [] v.type = "str" -> [ok |-> TRUE, val |-> utf8_encode(v.val)]
      [] OTHER -> [ok |-> FALSE]

IsSpace(b) == b = 32 \/ (b >= 9 /\ b <= 13)

RECURSIVE lstrip(_)
lstrip(b) == IF b # <<>> /\ IsSpace(Head(b)) THEN lstrip(Tail(b)) ELSE b

RECURSIVE rstrip(_)
rstrip(b) ==
    IF b # <<>> /\ IsSpace(b[Len(b)]) THEN rstrip(SubSeq(b, 1, Len(b) - 1)) ELSE b

RECURSIVE without_underscores(_)
without_underscores(b) ==
    IF b = <<>> THEN <<>>
    ELSE IF Head(b) = 95 THEN without_underscores(Tail(b))
    ELSE <<Head(b)>> \o without_underscores(Tail(b))

\* int(data) for bytes: blanks around, a sign, decimal digits, single
\* underscores between digits; anything else raises ValueError.
py_int(b) ==
    LET t == rstrip(lstrip(b))
        signed == t # <<>> /\ (t[1] = 43 \/ t[1] = 45)
        body == IF signed THEN Tail(t) ELSE t
        wellFormed ==
            /\ body # <<>>
            /\ IsDigit(body[1])
            /\ IsDigit(body[Len(body)])
            /\ \A i \in 1..Len(body) :
                  \/ IsDigit(body[i])
                  \/ (body[i] = 95 /\ i > 1 /\ body[i - 1] # 95)
        n == DigitsToNat(without_underscores(body))
    IN IF ~wellFormed THEN Raise("ValueError")
       ELSE Return(PyInt(IF signed /\ t[1] = 45 THEN 0 - n ELSE n))

\* d.decode("utf-8")
py_decode(b) ==
    LET d == utf8_decode(b)
    IN IF d.ok THEN Return(PyStr(d.val)) ELSE Raise("UnicodeDecodeError")

\* fn(data), for the coercions the class passes to get
apply_fn(fn, b) ==
    CASE fn = "decode" -> py_decode(b)
      [] fn = "int" -> py_int(b)

\* fn(None): None has no decode, and int(None) is a TypeError
apply_fn_to_None(fn) ==
    CASE fn = "decode" -> Raise("AttributeError")
      [] fn = "int" -> Raise("TypeError")

(***************************************************************************)
(* exercise.py: Cache                                                      *)
(***************************************************************************)
\* method.__qualname__ of the decorated method
store_qualname == "Cache.store"

\* The data given to store: a numeric str, a str that is not ASCII, bytes
\* that are not UTF-8, an int, a float, and None, which the client refuses.
Values ==
    {PyStr(<<52, 50>>), PyStr(<<233>>), PyStr(<<97, 98, 99>>), PyBytes(<<255>>),
     PyInt(42), PyFloat(15), None}

\* The keys uuid4 can generate.
Uuids == {"uuid-" \o ToString(i) : i \in 1..MaxStores}

\* A slip: str(uuid.uuid4) without the call, the same text every time.
uuid4_not_called == {"uuid-1"}

\* uuid4(): a key it has not generated before.
uuid4 == Uuids \ issued

\* The keys a caller may ask for: generated or not, the counter, a key nobody
\* writes.
GetKeys == Uuids \cup {store_qualname, "missing"}

\* A slip: the bytes decoded though no fn was given.
Cache_get_implicit_decode(db, key, fn) ==
    LET g == redis_get(db, key)
    IN IF g.error THEN Raise("ResponseError")
       ELSE IF ~g.found THEN Return(None)
       ELSE IF fn # "none" THEN apply_fn(fn, g.val)
       ELSE py_decode(g.val)

\* A slip: the coercion applied before the test for None.
Cache_get_coerce_first(db, key, fn) ==
    LET g == redis_get(db, key)
    IN IF g.error THEN Raise("ResponseError")
       ELSE IF fn # "none"
            THEN (IF g.found THEN apply_fn(fn, g.val) ELSE apply_fn_to_None(fn))
       ELSE IF g.found THEN Return(PyBytes(g.val)) ELSE Return(None)

\* Cache.get, lines 102-107
Cache_get(db, key, fn) ==
    LET g == redis_get(db, key)
    IN IF g.error THEN Raise("ResponseError")
       ELSE IF ~g.found THEN Return(None)
       ELSE IF fn # "none" THEN apply_fn(fn, g.val)
       ELSE Return(PyBytes(g.val))

\* A slip: the counter set to 1 instead of incremented.
count_calls_wrapper_set_one(c, data) ==
    /\ pc[c] = "idle"
    /\ storeCalls < MaxStores
    /\ redis' = redis_set(redis, store_qualname, IntToBytes(1))
    /\ pc' = [pc EXCEPT ![c] = "store"]
    /\ ret' = [ret EXCEPT ![c] = NoOutcome]
    /\ frame' = [frame EXCEPT ![c] = [op |-> "store", data |-> data, key |-> ""]]
    /\ storeCalls' = storeCalls + 1
    /\ UNCHANGED <<now, fetchVars, issued, stored, historyVars>>

\* A slip: the wrapper delegates without counting first.
count_calls_wrapper_no_incr(c, data) ==
    /\ pc[c] = "idle"
    /\ storeCalls < MaxStores
    /\ pc' = [pc EXCEPT ![c] = "store"]
    /\ ret' = [ret EXCEPT ![c] = NoOutcome]
    /\ frame' = [frame EXCEPT ![c] = [op |-> "store", data |-> data, key |-> ""]]
    /\ storeCalls' = storeCalls + 1
    /\ UNCHANGED <<redis, now, fetchVars, issued, stored, historyVars>>

\* count_calls.wrapper, lines 23-24: count the call, then go on to store.
count_calls_wrapper(c, data) ==
    /\ pc[c] = "idle"
    /\ storeCalls < MaxStores
    /\ LET r == redis_incr(redis, store_qualname)
       IN /\ redis' = r.db
          /\ pc' = [pc EXCEPT ![c] = IF r.ok THEN "store" ELSE "idle"]
          /\ ret' = [ret EXCEPT ![c] = IF r.ok THEN NoOutcome ELSE Raise("ResponseError")]
    /\ frame' = [frame EXCEPT ![c] = [op |-> "store", data |-> data, key |-> ""]]
    /\ storeCalls' = storeCalls + 1
    /\ UNCHANGED <<now, fetchVars, issued, stored, historyVars>>

\* Cache.store, lines 82-84, and the wrapper's return of its result (line 25).
store_returns(c, key) ==
    /\ pc[c] = "store"
    /\ key \in uuid4
    /\ client_encode(frame[c].data).ok
    /\ issued' = issued \cup {key}
    /\ redis' = redis_set(redis, key, client_encode(frame[c].data).val)
    /\ stored' = Put(stored, key, frame[c].data)
    /\ frame' = [frame EXCEPT ![c].key = key]
    /\ ret' = [ret EXCEPT ![c] = Return(PyKey(key))]
    /\ pc' = [pc EXCEPT ![c] = "idle"]
    /\ UNCHANGED <<now, fetchVars, storeCalls, historyVars>>

\* Cache.store, lines 82-83, when the client refuses the data: set raises
\* and nothing catches it.
store_raises(c, key) ==
    /\ pc[c] = "store"
    /\ key \in uuid4
    /\ ~client_encode(frame[c].data).ok
    /\ issued' = issued \cup {key}
    /\ ret' = [ret EXCEPT ![c] = Raise("DataError")]
    /\ pc' = [pc EXCEPT ![c] = "idle"]
    /\ UNCHANGED <<redis, now, frame, fetchVars, stored, storeCalls, historyVars>>

\* Cache.get(key), lines 102-107, with no fn
get(c, key) ==
    /\ pc[c] = "idle"
    /\ frame' = [frame EXCEPT ![c] = [op |-> "get", key |-> key]]
    /\ ret' = [ret EXCEPT ![c] = Cache_get(redis, key, "none")]
    /\ UNCHANGED <<redis, now, pc, fetchVars, cacheVars, historyVars>>

\* Cache.get_str(key), line 119
get_str(c, key) ==
    /\ pc[c] = "idle"
    /\ frame' = [frame EXCEPT ![c] = [op |-> "get_str", key |-> key]]
    /\ ret' = [ret EXCEPT ![c] = Cache_get(redis, key, "decode")]
    /\ UNCHANGED <<redis, now, pc, fetchVars, cacheVars, historyVars>>

\* A slip: get_int passes no fn, so the raw bytes come back.
get_int_no_fn(c, key) ==
    /\ pc[c] = "idle"
    /\ frame' = [frame EXCEPT ![c] = [op |-> "get_int", key |-> key]]
    /\ ret' = [ret EXCEPT ![c] = Cache_get(redis, key, "none")]
    /\ UNCHANGED <<redis, now, pc, fetchVars, cacheVars, historyVars>>

\* Cache.get_int(key), line 131
get_int(c, key) ==
    /\ pc[c] = "idle"
    /\ frame' = [frame EXCEPT ![c] = [op |-> "get_int", key |-> key]]
    /\ ret' = [ret EXCEPT ![c] = Cache_get(redis, key, "int")]
    /\ UNCHANGED <<redis, now, pc, fetchVars, cacheVars, historyVars>>

(***************************************************************************)
(* exercise.py: call_history, around a method of the Cache.  The module    *)
(* decorates no method with it, so the method is any method: it is given   *)
(* positional arguments and returns a value or raises.                     *)
(***************************************************************************)
method_qualname == "Cache.method"
key_inputs == method_qualname \o ":inputs"
key_outputs == method_qualname \o ":outputs"

\* The positional arguments of a call: none, one int, a str and an int.
ArgTuples == {<<>>, <<PyInt(1)>>, <<PyStr(<<97>>), PyInt(2)>>}

\* What the method can return: a str that is not ASCII, an int, None.
Outputs == {PyStr(<<233>>), PyInt(7), None}
MethodFailures == {"KeyError"}

\* repr(v), for None, int, float and a str of printable characters other
\* than the quote and the backslash
py_repr(v) ==
    CASE v.type = "NoneType" -> <<78, 111, 110, 101>>
      [] v.type = "int" -> IntToBytes(v.val)
      [] v.type = "float" -> float_repr(v.tenths)
      [] v.type = "str" -> <<39>> \o v.val \o <<39>>

RECURSIVE join_reprs(_)
join_reprs(args) ==
    IF Len(args) = 1 THEN py_repr(args[1])
    ELSE py_repr(args[1]) \o <<44, 32>> \o join_reprs(Tail(args))

\* str(args) of the tuple of positional arguments: "()", "(1,)", "('a', 2)"
str_args(args) ==
    IF args = <<>> THEN PyStr(<<40, 41>>)
    ELSE IF Len(args) = 1 THEN PyStr(<<40>> \o py_repr(args[1]) \o <<44, 41>>)
    ELSE PyStr(<<40>> \o join_reprs(args) \o <<41>>)

\* RPUSH key value: [ok, db]; a key that holds a string is the wrong type.
redis_rpush(db, key, bs) ==
    IF key \notin DOMAIN db THEN [ok |-> TRUE, db |-> Put(db, key, ListEntry(<<bs>>))]
    ELSE IF db[key].kind # "list" THEN [ok |-> FALSE, db |-> db]
    ELSE [ok |-> TRUE, db |-> Put(db, key, ListEntry(Append(db[key].items, bs)))]

\* LPUSH key value, which puts the value at the head
redis_lpush(db, key, bs) ==
    IF key \notin DOMAIN db THEN [ok |-> TRUE, db |-> Put(db, key, ListEntry(<<bs>>))]
    ELSE IF db[key].kind # "list" THEN [ok |-> FALSE, db |-> db]
    ELSE [ok |-> TRUE, db |-> Put(db, key, ListEntry(<<bs>> \o db[key].items))]

\* LRANGE key 0 -1: the items; none for a missing key
redis_lrange(db, key) ==
    IF key \in DOMAIN db /\ db[key].kind = "list" THEN db[key].items ELSE <<>>

\* A slip: the method is started with the input not yet appended.
call_history_wrapper_no_input(c, args) ==
    /\ pc[c] = "idle"
    /\ Len(callLog) < MaxRecorded
    /\ pc' = [pc EXCEPT ![c] = "method"]
    /\ ret' = [ret EXCEPT ![c] = NoOutcome]
    /\ callLog' = Append(callLog,
          [args |-> args, result |-> NoOutcome, outcome |-> NoOutcome])
    /\ frame' = [frame EXCEPT ![c] =
          [op |-> "method", args |-> args, output |-> None, call |-> Len(callLog) + 1]]
    /\ UNCHANGED <<redis, now, fetchVars, cacheVars>>

\* call_history.wrapper, lines 42-46: append str(args) to the inputs log.
call_history_wrapper(c, args) ==
    /\ pc[c] = "idle"
    /\ Len(callLog) < MaxRecorded
    /\ LET r == redis_rpush(redis, key_inputs, client_encode(str_args(args)).val)
       IN /\ redis' = r.db
          /\ pc' = [pc EXCEPT ![c] = IF r.ok THEN "method" ELSE "idle"]
          /\ ret' = [ret EXCEPT ![c] = IF r.ok THEN NoOutcome ELSE Raise("ResponseError")]
          /\ callLog' = Append(callLog,
                [args |-> args, result |-> NoOutcome,
                 outcome |-> IF r.ok THEN NoOutcome ELSE Raise("ResponseError")])
    /\ frame' = [frame EXCEPT ![c] =
          [op |-> "method", args |-> args, output |-> None, call |-> Len(callLog) + 1]]
    /\ UNCHANGED <<now, fetchVars, cacheVars>>

\* line 49, when the method returns `out`
method_returns(c, out) ==
    /\ pc[c] = "method"
    /\ frame' = [frame EXCEPT ![c].output = out]
    /\ callLog' = [callLog EXCEPT ![frame[c].call].result = Return(out)]
    /\ pc' = [pc EXCEPT ![c] = "outputs"]
    /\ UNCHANGED <<redis, now, ret, fetchVars, cacheVars>>

\* A slip: a failure of the method caught, an empty output appended for it,
\* and the failure raised again.
method_raises_padded(c, e) ==
    /\ pc[c] = "method"
    /\ redis' = redis_rpush(redis, key_outputs, <<>>).db
    /\ callLog' = [callLog EXCEPT ![frame[c].call].result = Raise(e),
                                  ![frame[c].call].outcome = Raise(e)]
    /\ ret' = [ret EXCEPT ![c] = Raise(e)]
    /\ pc' = [pc EXCEPT ![c] = "idle"]
    /\ UNCHANGED <<now, frame, fetchVars, cacheVars>>

\* line 49, when the method raises: the wrapper ends there.
method_raises(c, e) ==
    /\ pc[c] = "method"
    /\ callLog' = [callLog EXCEPT ![frame[c].call].result = Raise(e),
                                  ![frame[c].call].outcome = Raise(e)]
    /\ ret' = [ret EXCEPT ![c] = Raise(e)]
    /\ pc' = [pc EXCEPT ![c] = "idle"]
    /\ UNCHANGED <<redis, now, frame, fetchVars, cacheVars>>

\* A slip: lpush for rpush.
call_history_outputs_lpush(c) ==
    /\ pc[c] = "outputs"
    /\ LET enc == client_encode(frame[c].output)
           r == IF enc.ok THEN redis_lpush(redis, key_outputs, enc.val)
                ELSE [ok |-> FALSE, db |-> redis]
           outcome == IF ~enc.ok THEN Raise("DataError")
                      ELSE IF ~r.ok THEN Raise("ResponseError")
                      ELSE Return(frame[c].output)
       IN /\ redis' = r.db
          /\ ret' = [ret EXCEPT ![c] = outcome]
          /\ callLog' = [callLog EXCEPT ![frame[c].call].outcome = outcome]
    /\ pc' = [pc EXCEPT ![c] = "idle"]
    /\ UNCHANGED <<now, frame, fetchVars, cacheVars>>

\* call_history.wrapper, lines 52-54: append the output to the outputs log
\* and return it; the client refuses an output such as None with DataError.
call_history_outputs(c) ==
    /\ pc[c] = "outputs"
    /\ LET enc == client_encode(frame[c].output)
           r == IF enc.ok THEN redis_rpush(redis, key_outputs, enc.val)
                ELSE [ok |-> FALSE, db |-> redis]
           outcome == IF ~enc.ok THEN Raise("DataError")
                      ELSE IF ~r.ok THEN Raise("ResponseError")
                      ELSE Return(frame[c].output)
       IN /\ redis' = r.db
          /\ ret' = [ret EXCEPT ![c] = outcome]
          /\ callLog' = [callLog EXCEPT ![frame[c].call].outcome = outcome]
    /\ pc' = [pc EXCEPT ![c] = "idle"]
    /\ UNCHANGED <<now, frame, fetchVars, cacheVars>>

(***************************************************************************)
(* exercise.py: replay.                                                    *)
(***************************************************************************)
\* eval(args) of an entry of the inputs log: the tuple whose str() the entry
\* is; text that is no such tuple does not parse.
py_eval(bs) ==
    IF \E a \in ArgTuples : client_encode(str_args(a)).val = bs
    THEN Return(CHOOSE a \in ArgTuples : client_encode(str_args(a)).val = bs)
    ELSE Raise("SyntaxError")

\* "{} was called {} times:".format(func.__qualname__, len(inputs))
Header(n) == [qualname |-> method_qualname, times |-> n]

\* "{}{} -> {}".format(func.__qualname__, args, output.decode("utf-8"))
Line(args, text) ==
    [qualname |-> method_qualname, args |-> str_args(args), output |-> text]

Min(a, b) == IF a <= b THEN a ELSE b

\* replay, lines 145-153: what it prints and how it ends.  `bound` tells
\* whether the module's global name `cache` is bound to a Cache: the module
\* never binds it, only code outside it can.  zip stops at the shorter log.
replay_report(db, bound) ==
    LET ins == redis_lrange(db, key_inputs)
        outs == redis_lrange(db, key_outputs)
        evals == [i \in 1..Len(ins) |-> py_eval(ins[i])]
        n == Min(Len(ins), Len(outs))
        decs == [i \in 1..n |-> py_decode(outs[i])]
        bad == {i \in 1..n : decs[i].kind = "raise"}
        shown == IF bad = {} THEN n
                 ELSE (CHOOSE i \in bad : \A j \in bad : i <= j) - 1
    IN IF ~bound THEN [outcome |-> Raise("NameError"), printed |-> <<>>]
       ELSE IF \E i \in 1..Len(ins) : evals[i].kind = "raise"
       THEN [outcome |-> Raise("SyntaxError"), printed |-> <<>>]
       ELSE [outcome |-> IF bad = {} THEN Return(None)
                         ELSE Raise("UnicodeDecodeError"),
             printed |-> <<Header(Len(ins))>> \o
                [i \in 1..shown |-> Line(evals[i].val, decs[i].val)]]

\* replay(Cache.method), lines 134-153
replay(c, bound) ==
    /\ pc[c] = "idle"
    /\ LET r == replay_report(redis, bound)
       IN /\ frame' = [frame EXCEPT ![c] = [op |-> "replay", printed |-> r.printed]]
          /\ ret' = [ret EXCEPT ![c] = r.outcome]
    /\ UNCHANGED <<redis, now, pc, fetchVars, cacheVars, historyVars>>

(***************************************************************************)
(* Specifications.                                                         *)
(***************************************************************************)
EmptyDb == [k \in {} |-> None]

Init ==
    /\ redis = EmptyDb
    /\ now = 0
    /\ pc = [c \in Callers |-> "idle"]
    /\ frame = [c \in Callers |-> IdleFrame]
    /\ ret = [c \in Callers |-> NoOutcome]
    /\ started = [u \in Urls |-> 0]
    /\ invocations = [u \in Urls |-> 0]
    /\ firstWrite = [u \in Urls |-> NoWrite]
    /\ issued = {}
    /\ stored = EmptyDb
    /\ storeCalls = 0
    /\ callLog = <<>>

\* A slip: the constructor connects and leaves the store as it finds it.
Cache_init_no_flushdb(c) ==
    /\ pc[c] = "idle"
    /\ frame' = [frame EXCEPT ![c] = [op |-> "Cache.__init__", found |-> DOMAIN redis]]
    /\ ret' = [ret EXCEPT ![c] = Return(None)]
    /\ UNCHANGED <<redis, now, pc, fetchVars, cacheVars, historyVars>>

\* Cache.__init__, lines 68-69: connect to the store (localhost:6379, db 0,
\* the one web.py connects to) and flushdb, which drops every key of it.
\* `found` keeps the keys the store held when the constructor was called.
Cache_init(c) ==
    /\ pc[c] = "idle"
    /\ redis' = EmptyDb
    /\ frame' = [frame EXCEPT ![c] = [op |-> "Cache.__init__", found |-> DOMAIN redis]]
    /\ ret' = [ret EXCEPT ![c] = Return(None)]
    /\ UNCHANGED <<now, pc, fetchVars, cacheVars, historyVars>>

\* Fetches, one call at a time.
FetchNext ==
    \/ \E c \in SeqCallers, u \in Urls : wrapper_incr(c, u)
    \/ \E c \in SeqCallers : wrapper_get(c)
    \/ \E c \in SeqCallers, t \in Texts : get_page_returns(c, t)
    \/ \E c \in SeqCallers, e \in Failures : get_page_raises(c, e)
    \/ \E c \in SeqCallers : wrapper_setex(c)
    \/ Tick

SpecFetch == Init /\ [][FetchNext]_vars

\* Fetches of several callers, their steps interleaved.
FetchRaceNext ==
    \/ \E c \in Callers, u \in Urls : Sum(started) < MaxRaceCalls /\ wrapper_incr(c, u)
    \/ \E c \in Callers : wrapper_get(c)
    \/ \E c \in Callers, t \in Texts : get_page_returns(c, t)
    \/ \E c \in Callers, e \in Failures : get_page_raises(c, e)
    \/ \E c \in Callers : wrapper_setex(c)
    \/ Tick

SpecFetchRace == Init /\ [][FetchRaceNext]_vars

\* The calls of one Cache, one at a time.
CacheNext ==
    \/ \E c \in SeqCallers, v \in Values : count_calls_wrapper(c, v)
    \/ \E c \in SeqCallers, k \in Uuids : store_returns(c, k)
    \/ \E c \in SeqCallers, k \in Uuids : store_raises(c, k)
    \/ \E c \in SeqCallers, k \in GetKeys : get(c, k)
    \/ \E c \in SeqCallers, k \in GetKeys : get_str(c, k)
    \/ \E c \in SeqCallers, k \in GetKeys : get_int(c, k)

SpecCache == Init /\ [][CacheNext]_vars

\* The calls of the recorded method, one at a time.
HistoryNext ==
    \/ \E c \in SeqCallers, a \in ArgTuples : call_history_wrapper(c, a)
    \/ \E c \in SeqCallers, o \in Outputs : method_returns(c, o)
    \/ \E c \in SeqCallers, e \in MethodFailures : method_raises(c, e)
    \/ \E c \in SeqCallers : call_history_outputs(c)

SpecHistory == Init /\ [][HistoryNext]_vars

\* The calls of the recorded method and replays of them, one at a time.
ReplayNext ==
    \/ \E c \in SeqCallers, a \in ArgTuples : call_history_wrapper(c, a)
    \/ \E c \in SeqCallers, o \in Outputs : method_returns(c, o)
    \/ \E c \in SeqCallers, e \in MethodFailures : method_raises(c, e)
    \/ \E c \in SeqCallers : call_history_outputs(c)
    \/ \E c \in SeqCallers, bound \in BOOLEAN : replay(c, bound)

SpecReplay == Init /\ [][ReplayNext]_vars

\* Calls of the recorded method by several callers, their steps interleaved.
HistoryRaceNext ==
    \/ \E c \in Callers, a \in ArgTuples :
          Len(callLog) < MaxRaceRecorded /\ call_history_wrapper(c, a)
    \/ \E c \in Callers, o \in Outputs : method_returns(c, o)
    \/ \E c \in Callers, e \in MethodFailures : method_raises(c, e)
    \/ \E c \in Callers : call_history_outputs(c)

SpecHistoryRace == Init /\ [][HistoryRaceNext]_vars

\* The calls made so far, of any component
SystemCalls == Sum(started) + storeCalls + Len(callLog)

\* What the calls of a run of the whole system are given and give back: one
\* of each kind, and the value the client refuses.
SystemTexts == {<<120>>}
SystemValues == {PyInt(42), None}
SystemArgs == {<<PyInt(1)>>}
SystemOutputs == {PyInt(7)}

\* One process that uses every component against the one store: it fetches
\* pages, stores values, calls the recorded method and constructs a Cache
\* again, one call at a time.  The clock stands still.
SystemNext ==
    \/ \E c \in SeqCallers, u \in Urls :
          SystemCalls < MaxSystemCalls /\ wrapper_incr(c, u)
    \/ \E c \in SeqCallers : wrapper_get(c)
    \/ \E c \in SeqCallers, t \in SystemTexts : get_page_returns(c, t)
    \/ \E c \in SeqCallers, e \in Failures : get_page_raises(c, e)
    \/ \E c \in SeqCallers : wrapper_setex(c)
    \/ \E c \in SeqCallers, v \in SystemValues :
          SystemCalls < MaxSystemCalls /\ count_calls_wrapper(c, v)
    \/ \E c \in SeqCallers, k \in Uuids : store_returns(c, k)
    \/ \E c \in SeqCallers, k \in Uuids : store_raises(c, k)
    \/ \E c \in SeqCallers, a \in SystemArgs :
          SystemCalls < MaxSystemCalls /\ call_history_wrapper(c, a)
    \/ \E c \in SeqCallers, o \in SystemOutputs : method_returns(c, o)
    \/ \E c \in SeqCallers, e \in MethodFailures : method_raises(c, e)
    \/ \E c \in SeqCallers : call_history_outputs(c)
    \/ \E c \in SeqCallers : Cache_init(c)

SpecSystem == Init /\ [][SystemNext]_vars

(***************************************************************************)
(* Claims about the memoizing fetcher (web.py).                            *)
(***************************************************************************)
\* What count:<url> holds, read as a number; 0 while the key is missing.
access_count(db, url) ==
    LET g == redis_get(db, count_key(url))
    IN IF g.found THEN string2ll(g.val).val ELSE 0

\* The last call of c was a fetch, it has ended, it began after the first cache
\* write for its url and the time to live of that write has not run out.
InFirstWindow(c) ==
    /\ pc[c] = "idle"
    /\ frame[c].op = "get_page"
    /\ frame[c].afterWrite
    /\ now < firstWrite[frame[c].url].at + TTL

\* C1: calls with the same argument that fall within the time to live of the
\* first call's cache write do not invoke get_page again and return the text
\* the first call returned, whatever that text is; each of them is counted.
C1_WithinTtlInvokedOnce ==
    \A c \in Callers :
        InFirstWindow(c) =>
            /\ ~frame[c].invoked
            /\ ret[c] = Return(firstWrite[frame[c].url].text)
            /\ access_count(redis, frame[c].url) = started[frame[c].url]

\* The same statement for the first writes whose text is not empty: it holds,
\* so the empty text is the only case in which C1 fails.
C1_NonEmptyWithinTtlInvokedOnce ==
    \A c \in Callers :
        (InFirstWindow(c) /\ firstWrite[frame[c].url].text.val # <<>>) =>
            /\ ~frame[c].invoked
            /\ ret[c] = Return(firstWrite[frame[c].url].text)
            /\ access_count(redis, frame[c].url) = started[frame[c].url]

\* C2: a fetch that finds no live cache entry (never written, or expired TTL
\* seconds after its setex) invokes get_page; when get_page returns, the
\* fetch writes the text under cache:<url> to expire TTL seconds from now and
\* returns that text.
C2_RefetchAfterExpiry ==
    [][\A c \in Callers :
          /\ (/\ pc[c] = "get"
              /\ pc'[c] # "get"
              /\ cache_key(frame[c].url) \notin DOMAIN redis)
             => (pc'[c] = "func" /\ ret'[c] = NoOutcome)
          /\ (pc[c] = "func" /\ pc'[c] # "func")
             => invocations'[frame[c].url] = invocations[frame[c].url] + 1
          /\ (pc[c] = "setex" /\ pc'[c] # "setex")
             => /\ cache_key(frame[c].url) \in DOMAIN redis'
                /\ redis'[cache_key(frame[c].url)] =
                      StringEntry(utf8_encode(frame[c].result.val), now + TTL)
                /\ client_get_decoded(redis', cache_key(frame[c].url))
                      = Return(frame[c].result)
                /\ ret'[c] = Return(frame[c].result)
                /\ pc'[c] = "idle"]_vars

\* C2's case: the first text written for "a" was not empty, its time to live
\* has run out, get_page has been invoked a second time and the entry now in
\* the cache was written at this very second, to live TTL seconds.
C2_Witness ==
    /\ firstWrite["a"].written
    /\ firstWrite["a"].text.val # <<>>
    /\ now >= firstWrite["a"].at + TTL
    /\ invocations["a"] = 2
    /\ pc["c1"] = "idle"
    /\ frame["c1"].op = "get_page"
    /\ frame["c1"].url = "a"
    /\ frame["c1"].invoked
    /\ cache_key("a") \in DOMAIN redis
    /\ redis[cache_key("a")].exp = now + TTL
    /\ ret["c1"] = Return(PyStr(utf8_decode(redis[cache_key("a")].val).val))

\* C3: count:<url> is the number of fetch calls started with url, whether they
\* hit, missed or failed, and it never goes down.
C3_AccessCountIsCallsStarted ==
    /\ [](\A u \in Urls : access_count(redis, u) = started[u])
    /\ [][\A u \in Urls : access_count(redis', u) >= access_count(redis, u)]_vars

\* C3's case: three fetches of "a" are counted: one that missed and cached a
\* text, one that hit (get_page ran only twice) and a last one that failed.
C3_Witness ==
    /\ access_count(redis, "a") = 3
    /\ started["a"] = 3
    /\ invocations["a"] = 2
    /\ firstWrite["a"].written
    /\ firstWrite["a"].text.val # <<>>
    /\ pc["c1"] = "idle"
    /\ frame["c1"].op = "get_page"
    /\ frame["c1"].url = "a"
    /\ ret["c1"].kind = "raise"

\* C4: when get_page fails on a miss the store is left as it was: nothing is
\* written under cache:<url>, which stays absent, the count made by the call
\* is kept, and the caller gets the failure.
C4_FailureNotCached ==
    [][\A c \in Callers :
          (pc[c] = "func" /\ pc'[c] = "idle" /\ ret'[c].kind # "return")
          => /\ ret'[c] \in {Raise(e) : e \in Failures}
             /\ redis' = redis
             /\ cache_key(frame[c].url) \notin DOMAIN redis'
             /\ access_count(redis', frame[c].url) = started'[frame[c].url]
             /\ access_count(redis', frame[c].url) >= 1]_vars

\* What remains of C4 when the entry need not be absent: a failure of get_page
\* leaves the whole store as it was, the count included, and reaches the caller.
C4_FailureLeavesStoreUnchanged ==
    [][\A c \in Callers :
          (pc[c] = "func" /\ pc'[c] = "idle" /\ ret'[c].kind # "return")
          => /\ ret'[c] \in {Raise(e) : e \in Failures}
             /\ redis' = redis
             /\ access_count(redis', frame[c].url) = started'[frame[c].url]]_vars

(***************************************************************************)
(* Claims about the Cache and its wrappers (exercise.py).                  *)
(***************************************************************************)
\* What the key Cache.store holds, read as a number; 0 while it is missing.
invocation_count(db) ==
    LET g == redis_get(db, store_qualname)
    IN IF g.found THEN string2ll(g.val).val ELSE 0

\* C5: the counter under 'Cache.store' is the number of store calls made: the
\* key is missing before the first call, and every call adds exactly 1.
C5_CounterIsStoreCalls ==
    /\ [](/\ invocation_count(redis) = storeCalls
          /\ (storeCalls = 0 <=> store_qualname \notin DOMAIN redis))
    /\ [][/\ invocation_count(redis') >= invocation_count(redis)
          /\ (storeCalls' # storeCalls
                => invocation_count(redis') = invocation_count(redis) + 1)
          /\ (storeCalls' = storeCalls
                => invocation_count(redis') = invocation_count(redis))]_vars

\* C5's case: three calls of store, one of them refused, and the counter is 3.
C5_Witness ==
    /\ storeCalls = 3
    /\ invocation_count(redis) = 3
    /\ redis[store_qualname].val = <<51>>
    /\ pc["c1"] = "idle"
    /\ Cardinality(DOMAIN stored) = 2

\* The step in which the store call of c ends.
StoreEnds(c) == pc[c] = "store" /\ pc'[c] = "idle"

\* C6: the call is counted before store runs; when store fails the count is
\* kept and the failure reaches the caller; when it succeeds the caller gets
\* the key store generated.
C6_CountedBeforeDelegating ==
    /\ [](\A c \in Callers :
            pc[c] = "store" =>
               /\ invocation_count(redis) = storeCalls
               /\ invocation_count(redis) >= 1)
    /\ [][\A c \in Callers :
            StoreEnds(c) =>
               /\ invocation_count(redis') = invocation_count(redis)
               /\ invocation_count(redis') = storeCalls'
               /\ IF client_encode(frame[c].data).ok
                  THEN /\ ret'[c].kind = "return"
                       /\ ret'[c].val \in {PyKey(k) : k \in issued' \ issued}
                       /\ redis'[ret'[c].val.key].val = client_encode(frame[c].data).val
                  ELSE /\ ret'[c] = Raise("DataError")
                       /\ redis' = redis]_vars

\* C6's case: store(None) has failed with DataError after another call, and
\* both calls are counted.
C6_Witness ==
    /\ pc["c1"] = "idle"
    /\ frame["c1"].op = "store"
    /\ frame["c1"].data = None
    /\ ret["c1"] = Raise("DataError")
    /\ storeCalls = 2
    /\ invocation_count(redis) = 2

\* The logs of the recorded method, as lrange reads them.
inputs_log == redis_lrange(redis, key_inputs)
outputs_log == redis_lrange(redis, key_outputs)
AllIdle == \A c \in Callers : pc[c] = "idle"

\* What the client sends for str(args) and for an output.
encoded_args(args) == client_encode(str_args(args)).val
encoded_output(out) == client_encode(out).val

IsPrefix(a, b) == Len(a) <= Len(b) /\ SubSeq(b, 1, Len(a)) = a

\* C7 as stated: after n calls both logs have n entries, and entry i of the
\* outputs log is the result of the call whose arguments are entry i of the
\* inputs log.
C7_LogsHaveOneEntryPerCall ==
    AllIdle =>
        /\ Len(inputs_log) = Len(callLog)
        /\ Len(outputs_log) = Len(callLog)
        /\ \A i \in 1..Len(callLog) :
              /\ inputs_log[i] = encoded_args(callLog[i].args)
              /\ callLog[i].result.kind = "return"
              /\ client_encode(callLog[i].result.val).ok
              /\ outputs_log[i] = encoded_output(callLog[i].result.val)

Returned(call) == call.outcome.kind = "return"

\* C7 as amended: after n calls made one after another the inputs log has n
\* entries, entry i being str(args) of call i; the outputs log holds the
\* results of the calls that returned, in call order; so when no call failed
\* both logs have n entries and entry i of the outputs log is the result of
\* the call of entry i of the inputs log.  The logs only grow at their end.
C7_LogsOfReturnedCalls ==
    /\ [](AllIdle =>
            /\ inputs_log = [i \in 1..Len(callLog) |-> encoded_args(callLog[i].args)]
            /\ LET done == SelectSeq(callLog, Returned)
               IN outputs_log =
                     [i \in 1..Len(done) |-> encoded_output(done[i].result.val)]
            /\ (\A i \in 1..Len(callLog) : Returned(callLog[i]))
                 => /\ Len(inputs_log) = Len(callLog)
                    /\ Len(outputs_log) = Len(callLog)
                    /\ \A i \in 1..Len(callLog) :
                          /\ callLog[i].outcome = callLog[i].result
                          /\ outputs_log[i] = encoded_output(callLog[i].result.val))
    /\ [][/\ IsPrefix(inputs_log, inputs_log')
          /\ IsPrefix(outputs_log, outputs_log')]_vars

\* C7's case: three calls with different arguments have returned different
\* results, and the logs pair them.
C7_Witness ==
    /\ AllIdle
    /\ Len(callLog) = 3
    /\ \A i \in 1..3 : Returned(callLog[i])
    /\ callLog[1].args # callLog[2].args
    /\ callLog[1].result # callLog[2].result
    /\ Len(inputs_log) = 3
    /\ Len(outputs_log) = 3
    /\ outputs_log[2] = encoded_output(callLog[2].result.val)
    /\ outputs_log[1] # outputs_log[2]

\* The raw form of a value: the bytes the client sends for it.
raw(v) == PyBytes(client_encode(v).val)

\* C8: get of a key that store returned gives back the stored value in raw
\* form, whatever other calls of store and get were made in between.
C8_RoundTrip ==
    /\ \A k \in DOMAIN stored : Cache_get(redis, k, "none") = Return(raw(stored[k]))
    /\ \A c \in Callers :
          (pc[c] = "idle" /\ frame[c].op = "get" /\ frame[c].key \in DOMAIN stored)
          => ret[c] = Return(raw(stored[frame[c].key]))

\* C8's case: three values are stored, and get of the key of the int 42 has
\* returned b"42".
C8_Witness ==
    /\ Cardinality(DOMAIN stored) = 3
    /\ pc["c1"] = "idle"
    /\ frame["c1"].op = "get"
    /\ frame["c1"].key \in DOMAIN stored
    /\ stored[frame["c1"].key] = PyInt(42)
    /\ ret["c1"] = Return(PyBytes(<<52, 50>>))

GetOps == {"get", "get_str", "get_int"}

\* The step in which c makes a call of get, get_str or get_int.
GetStep(c) ==
    /\ pc[c] = "idle"
    /\ pc'[c] = "idle"
    /\ frame'[c].op \in GetOps
    /\ <<frame'[c], ret'[c]>> # <<frame[c], ret[c]>>

\* C9: for a key that is not in the store, get, get_str and get_int return
\* None and do not raise.
C9_AbsentKeyGivesNone ==
    /\ [](\A k \in GetKeys \ DOMAIN redis :
            \A fn \in {"none", "decode", "int"} :
               Cache_get(redis, k, fn) = Return(None))
    /\ [][\A c \in Callers :
            (GetStep(c) /\ frame'[c].key \notin DOMAIN redis)
            => ret'[c] = Return(None)]_vars

\* C9's case: values are stored, and get_int of a key that is not in the store
\* has returned None.
C9_Witness ==
    /\ DOMAIN stored # {}
    /\ pc["c1"] = "idle"
    /\ frame["c1"].op = "get_int"
    /\ frame["c1"].key \notin DOMAIN redis
    /\ ret["c1"] = Return(None)

\* C10: store returns a key that no earlier call returned, and a value once
\* stored stays in the store, unchanged, under its key.
C10_KeysNeverReused ==
    [][/\ \A c \in Callers :
            (StoreEnds(c) /\ ret'[c].kind = "return")
            => /\ ret'[c].val.key \notin DOMAIN stored
               /\ ret'[c].val.key \notin DOMAIN redis
               /\ ret'[c].val.key \in DOMAIN redis'
       /\ \A k \in DOMAIN stored :
            /\ k \in DOMAIN redis /\ k \in DOMAIN redis'
            /\ redis'[k] = redis[k]
            /\ k \in DOMAIN stored' /\ stored'[k] = stored[k]
            /\ redis'[k].val = client_encode(stored[k]).val]_vars

\* C10's case: the same value was stored twice, under two keys, a third
\* value after them, and all three are in the store.
C10_Witness ==
    /\ Cardinality(DOMAIN stored) = 3
    /\ \E k1, k2 \in DOMAIN stored : k1 # k2 /\ stored[k1] = stored[k2]
    /\ \A k \in DOMAIN stored : Cache_get(redis, k, "none") = Return(raw(stored[k]))
    /\ pc["c1"] = "idle"

(***************************************************************************)
(* Claims about the age of what a fetch returns.                           *)
(***************************************************************************)
\* The step in which c's fetch returns a text it found cached
HitStep(c) == pc[c] = "get" /\ pc'[c] = "idle" /\ ret'[c].kind = "return"

\* The step in which c's fetch writes the text it had from get_page and
\* returns it
MissStep(c) == pc[c] = "setex" /\ pc'[c] = "idle"

\* C18: only the setex of a miss gives cache:<url> a value and an expiry,
\* now + TTL, and a hit leaves both as they are; an entry in the store was
\* written less than TTL seconds ago.  So the text a fetch returns is one
\* that get_page returned and that was written to the cache less than TTL
\* seconds before the return: at the return, on a miss.
C18_ReturnedTextIsFresh ==
    /\ [](\A u \in Urls :
            cache_key(u) \in DOMAIN redis =>
               /\ redis[cache_key(u)].kind = "string"
               /\ redis[cache_key(u)].exp - TTL <= now
               /\ now - (redis[cache_key(u)].exp - TTL) < TTL)
    /\ [][/\ \A c \in Callers :
               /\ HitStep(c) =>
                     /\ redis' = redis
                     /\ cache_key(frame[c].url) \in DOMAIN redis
                     /\ utf8_encode(ret'[c].val.val) = redis[cache_key(frame[c].url)].val
               /\ MissStep(c) =>
                     /\ frame[c].invoked
                     /\ ret'[c] = Return(frame[c].result)
                     /\ redis'[cache_key(frame[c].url)] =
                           StringEntry(utf8_encode(frame[c].result.val), now + TTL)
          /\ \A u \in Urls :
               (/\ cache_key(u) \in DOMAIN redis'
                /\ \/ cache_key(u) \notin DOMAIN redis
                   \/ redis'[cache_key(u)] # redis[cache_key(u)])
               => \E c \in Callers : MissStep(c) /\ frame[c].url = u]_vars

\* C18's case: "a" was fetched three times, at 0 and twice after the first
\* tick of the clock; get_page was called once, and the two hits left the
\* expiry at that of the write.
C18_Witness ==
    /\ started["a"] = 3
    /\ invocations["a"] = 1
    /\ now = TickSeconds
    /\ firstWrite["a"].at = 0
    /\ pc["c1"] = "idle"
    /\ frame["c1"].url = "a"
    /\ ret["c1"] = Return(firstWrite["a"].text)
    /\ redis[cache_key("a")].exp = TTL

(***************************************************************************)
(* Claims about the keys a fetch touches.                                  *)
(***************************************************************************)
\* The step is one of c's fetch of u: the count, the read of the cache, the
\* call of get_page or the write.
FetchStep(c, u) ==
    \/ /\ pc[c] = "idle"
       /\ started'[u] = started[u] + 1
       /\ frame'[c] # frame[c]
       /\ frame'[c].op = "get_page"
       /\ frame'[c].url = u
    \/ pc[c] \in {"get", "func", "setex"} /\ frame[c].url = u /\ pc'[c] # pc[c]

\* The store with only the keys `keys`
Only(db, keys) == [k \in DOMAIN db \cap keys |-> db[k]]

\* C19: a step of a fetch of u changes no key but count:<u> and cache:<u>:
\* the counter and the cached page of another url, the values of
\* Cache.store, its counter and the history logs stay as they are.  What
\* the step does is what it would do were these two the only keys.
C19_FetchTouchesItsTwoKeys ==
    [][\A c \in Callers, u \in Urls :
          FetchStep(c, u) =>
             LET count == "count:" \o u
                 cache == "cache:" \o u
                 own == {count, cache}
                 mine == Only(redis, own)
             IN /\ DOMAIN redis \ own = DOMAIN redis' \ own
                /\ \A k \in DOMAIN redis \ own : redis'[k] = redis[k]
                /\ pc[c] = "idle" =>
                      Only(redis', own) = redis_incr(mine, count).db
                /\ pc[c] = "get" =>
                      /\ redis' = redis
                      /\ (pc'[c] = "func") =
                            ~Truthy(client_get_decoded(mine, cache).val)
                /\ pc[c] = "func" => redis' = redis
                /\ pc[c] = "setex" =>
                      Only(redis', own) =
                         redis_setex(mine, cache, TTL,
                                     utf8_encode(frame[c].result.val), now)]_vars

\* C19's case: "a" has been fetched and its page cached in a store that holds
\* the counter and the page of "b", a value of Cache.store, its counter and
\* both history logs.
C19_Witness ==
    /\ pc["c1"] = "idle"
    /\ frame["c1"].op = "get_page"
    /\ frame["c1"].url = "a"
    /\ frame["c1"].invoked
    /\ ret["c1"].kind = "return"
    /\ {count_key("a"), cache_key("a"), count_key("b"), cache_key("b"),
        store_qualname, key_inputs, key_outputs} \subseteq DOMAIN redis
    /\ DOMAIN redis \cap Uuids # {}

(***************************************************************************)
(* Claims about the memoizing fetcher under concurrent callers.            *)
(***************************************************************************)
\* Both callers have fetched `u`, these being the two fetches of `u` so far;
\* both found no cached text, called get_page and had a text from it.
BothMissed(u) ==
    /\ started[u] = 2
    /\ \A c \in Callers :
          /\ pc[c] = "idle"
          /\ frame[c].op = "get_page"
          /\ frame[c].url = u
          /\ frame[c].invoked
          /\ ret[c].kind = "return"

\* C14: when two fetches of the same argument both find it uncached, both
\* call get_page and both write cache:<argument>: each write replaces what
\* the key held by the writer's text, with a time to live counted from that
\* write, so that after both the key holds the text of the later write; and
\* the access counter is 2.
C14_RacingFetches ==
    /\ [](\A u \in Urls :
            BothMissed(u) =>
               /\ invocations[u] = 2
               /\ redis[count_key(u)] = StringEntry(IntToBytes(2), NoExpiry)
               /\ firstWrite[u].written
               /\ cache_key(u) \in DOMAIN redis =>
                     \E c, d \in Callers :
                        /\ c # d
                        /\ ret[c].val = firstWrite[u].text
                        /\ redis[cache_key(u)].val = utf8_encode(ret[d].val.val)
                        /\ redis[cache_key(u)].exp >= firstWrite[u].at + TTL)
    /\ [][\A c \in Callers :
            (pc[c] = "setex" /\ pc'[c] = "idle")
            => /\ redis'[cache_key(frame[c].url)] =
                     StringEntry(utf8_encode(frame[c].result.val), now + TTL)
               /\ ret'[c] = Return(frame[c].result)]_vars

\* C14's case: both callers started their fetch of "a" before any write; both
\* called get_page, with different texts, and wrote at the same time of the
\* clock; the key holds the text of the second write.
C14_Witness ==
    /\ BothMissed("a")
    /\ \A c \in Callers : ~frame[c].afterWrite /\ ret[c].val.val # <<>>
    /\ ret["c1"] # ret["c2"]
    /\ firstWrite["a"].at = now
    /\ cache_key("a") \in DOMAIN redis
    /\ redis[cache_key("a")].val # utf8_encode(firstWrite["a"].text.val)
    /\ redis[cache_key("a")].exp = now + TTL

(***************************************************************************)
(* Claims about the steps of one recorded call.                            *)
(***************************************************************************)
\* C15: in a call of the recorded method, str(args) is appended to the inputs
\* log before the method starts and nothing is appended to the outputs log
\* until it has returned; a call that succeeds appends once to each log, its
\* output after the method returned, and returns the method's result as it
\* is.
C15_AppendsAroundTheCall ==
    /\ [](\A c \in Callers :
            pc[c] \in {"method", "outputs"} =>
               /\ Len(inputs_log) = frame[c].call
               /\ inputs_log[frame[c].call] = encoded_args(frame[c].args)
               /\ Len(outputs_log) = Len(SelectSeq(callLog, Returned)))
    /\ [][\A c \in Callers :
            /\ (pc[c] = "idle" /\ pc'[c] = "method")
               => /\ inputs_log' = Append(inputs_log, encoded_args(frame'[c].args))
                  /\ outputs_log' = outputs_log
            /\ (pc[c] = "method" /\ pc'[c] # "method")
               => redis' = redis
            /\ (pc[c] = "outputs" /\ pc'[c] = "idle" /\ ret'[c].kind = "return")
               => /\ inputs_log' = inputs_log
                  /\ outputs_log' = Append(outputs_log, encoded_output(frame[c].output))
                  /\ callLog[frame[c].call].result = Return(frame[c].output)
                  /\ ret'[c] = Return(frame[c].output)]_vars

\* C15's case: the call method('a', 2) has returned 'é', the second call made;
\* its arguments and its output are the last entries of the logs.
C15_Witness ==
    /\ pc["c1"] = "idle"
    /\ frame["c1"].op = "method"
    /\ frame["c1"].call = 2
    /\ frame["c1"].args = <<PyStr(<<97>>), PyInt(2)>>
    /\ ret["c1"] = Return(PyStr(<<233>>))
    /\ Len(inputs_log) = 2
    /\ inputs_log[2] = <<40, 39, 97, 39, 44, 32, 50, 41>>
    /\ Len(outputs_log) = 2
    /\ outputs_log[2] = <<195, 169>>

\* The calls among the first n that have ended with an exception
RECURSIVE FailedAmong(_)
FailedAmong(n) ==
    IF n = 0 THEN 0
    ELSE FailedAmong(n - 1) + (IF callLog[n].outcome.kind = "raise" THEN 1 ELSE 0)

\* C16: when the method raises, the wrapper appends nothing to the outputs
\* log, leaves the input it appended and raises the same exception.  Once
\* the calls made have ended, the inputs log is longer than the outputs log
\* by the number of failed calls, and the output of a call that returned
\* after f failed calls is f entries before its input.
C16_FailureLeavesAGap ==
    /\ [](AllIdle =>
            /\ Len(inputs_log) = Len(callLog)
            /\ Len(inputs_log) = Len(outputs_log) + FailedAmong(Len(callLog))
            /\ \A i \in 1..Len(callLog) :
                  /\ inputs_log[i] = encoded_args(callLog[i].args)
                  /\ Returned(callLog[i]) =>
                        /\ outputs_log[i - FailedAmong(i)] =
                              encoded_output(callLog[i].result.val)
                        /\ FailedAmong(i) > 0 => i - FailedAmong(i) < i)
    /\ [][\A c \in Callers :
            (pc[c] = "method" /\ pc'[c] = "idle")
            => /\ redis' = redis
               /\ ret'[c].kind = "raise"
               /\ ret'[c] = callLog'[frame[c].call].result]_vars

\* C16's case: the first call failed in the method, the second returned 7:
\* two inputs, and 7 as the first output.
C16_Witness ==
    /\ AllIdle
    /\ Len(callLog) = 2
    /\ callLog[1].result = Raise("KeyError")
    /\ ret["c1"] = Return(PyInt(7))
    /\ Len(inputs_log) = 2
    /\ outputs_log = <<IntToBytes(7)>>

(***************************************************************************)
(* Claims about replay.                                                    *)
(***************************************************************************)
\* C17: replay changes no key and prints a header with the number of calls
\* and then one line per call, line i made of entry i of the inputs log and
\* entry i of the outputs log: as many lines as the header says, whatever
\* the two logs hold.
C17_ReplayReportsEveryCall ==
    /\ [](\A c \in Callers :
            frame[c].op = "replay" =>
               LET printed == frame[c].printed
               IN /\ ret[c] = Return(None)
                  /\ Len(printed) >= 1
                  /\ printed[1] = Header(Len(inputs_log))
                  /\ Len(printed) - 1 = printed[1].times
                  /\ \A i \in 1..(Len(printed) - 1) :
                        /\ printed[i + 1].args.val = inputs_log[i]
                        /\ utf8_encode(printed[i + 1].output.val) = outputs_log[i])
    /\ [][\A c \in Callers : frame'[c].op = "replay" => redis' = redis]_vars

\* What holds of replay when the name `cache` is bound: it changes no key,
\* the header counts the inputs, and there is a line for each position that
\* both logs have.
C17_ReplayPairsByPosition ==
    /\ [](\A c \in Callers :
            (frame[c].op = "replay" /\ ret[c] # Raise("NameError")) =>
               LET printed == frame[c].printed
               IN /\ ret[c] = Return(None)
                  /\ printed[1] = Header(Len(inputs_log))
                  /\ Len(printed) - 1 = Min(Len(inputs_log), Len(outputs_log))
                  /\ \A i \in 1..(Len(printed) - 1) :
                        /\ printed[i + 1].args.val = inputs_log[i]
                        /\ utf8_encode(printed[i + 1].output.val) = outputs_log[i])
    /\ [][\A c \in Callers : frame'[c].op = "replay" => redis' = redis]_vars

(***************************************************************************)
(* Claims about the history recorder under concurrent callers.             *)
(***************************************************************************)
\* C13: with the calls of several callers interleaved, once all calls have
\* returned, entry i of the outputs log is the result of the call that
\* appended entry i of the inputs log.
C13_LogsCorrespondUnderRace ==
    (AllIdle /\ \A i \in 1..Len(callLog) : Returned(callLog[i]))
    => /\ Len(inputs_log) = Len(callLog)
       /\ Len(outputs_log) = Len(callLog)
       /\ \A i \in 1..Len(callLog) :
             /\ inputs_log[i] = encoded_args(callLog[i].args)
             /\ outputs_log[i] = encoded_output(callLog[i].result.val)

\* Bytes that are a base-10 integer: decimal digits and nothing else.
IsBase10(bs) == bs # <<>> /\ \A i \in 1..Len(bs) : IsDigit(bs[i])

\* Bytes with no digit in them.
NonNumeric(bs) == \A i \in 1..Len(bs) : ~IsDigit(bs[i])

\* C12: get_int of a key whose bytes are a base-10 integer returns that
\* integer; of a key whose bytes are not numeric it raises ValueError to the
\* caller; either way the store is as it was.
C12_GetIntParsesOrFails ==
    [][\A c \in Callers :
          (/\ GetStep(c)
           /\ frame'[c].op = "get_int"
           /\ frame'[c].key \in DOMAIN redis
           /\ redis[frame'[c].key].kind = "string")
          => LET bs == redis[frame'[c].key].val
             IN /\ redis' = redis
                /\ IsBase10(bs) => ret'[c] = Return(PyInt(DigitsToNat(bs)))
                /\ NonNumeric(bs) => ret'[c] = Raise("ValueError")]_vars

\* C12's case: "abc" is stored and get_int of its key has raised ValueError,
\* the value still there.
C12_Witness ==
    /\ frame["c1"].op = "get_int"
    /\ frame["c1"].key \in DOMAIN stored
    /\ stored[frame["c1"].key] = PyStr(<<97, 98, 99>>)
    /\ redis[frame["c1"].key] = StringEntry(<<97, 98, 99>>, NoExpiry)
    /\ ret["c1"] = Raise("ValueError")

(***************************************************************************)
(* Claims about the construction of a Cache (exercise.py).                 *)
(***************************************************************************)
\* C11: directly after the construction of a Cache the store holds no key,
\* whoever wrote the keys it held before: the fetcher, Cache.store, its
\* counter or the history recorder.
C11_ConstructionClearsStore ==
    \A c \in Callers :
        frame[c].op = "Cache.__init__" => DOMAIN redis = {}

\* A Cache was constructed over a store that held an access counter, a cached
\* page, a stored value, the counter of Cache.store and both history logs.
C11_Witness ==
    /\ frame["c1"].op = "Cache.__init__"
    /\ {count_key("a"), cache_key("a"), store_qualname, key_inputs, key_outputs}
           \subseteq frame["c1"].found
    /\ frame["c1"].found \cap Uuids # {}
    /\ DOMAIN redis = {}

=============================================================================
